---- MODULE Spec2Model ----
(***************************************************************************)
(* Model of src/algos/vpg.py: the VPGBuffer trajectory buffer with         *)
(* GAE-Lambda advantages, discount_cumsum, and the vpg training loop.      *)
(*                                                                         *)
(* Numbers.  The buffers hold floats; the model computes with exact        *)
(* rationals <<n, d>> (d > 0, lowest terms).  The result of the advantage  *)
(* normalisation of get() may be irrational or not a number, so an         *)
(* advantage slot holds one of                                             *)
(*    <<n, d>> with d > 0      the rational n/d                            *)
(*    <<n, d, vn, vd>>         the real (n/d) / sqrt(vn/vd), vn/vd > 0 not *)
(*                             the square of a rational                    *)
(*    <<0, 0>>, <<1, 0>>, <<-1, 0>>   NaN, +Inf, -Inf: the IEEE results of *)
(*                             0/0, x/0 for x > 0 and x/0 for x < 0        *)
(*    << >>                    a float the model does not follow (the      *)
(*                             statistics of irrational entries)           *)
(* Arrays are functions over 0..size-1 as in the source; the arguments of  *)
(* discount_cumsum are sequences.                                          *)
(***************************************************************************)
EXTENDS Integers, Sequences, FiniteSets, TLC

(***************************************************************************)
(* Bounds of the model.                                                    *)
(***************************************************************************)
\* largest buffer capacity explored by the path-arithmetic specification
MaxSize == 3
\* largest buffer capacity explored by the call-sequence specification
MaxCap == 2
\* number of successful get() calls after which the call-sequence
\* specification stops
MaxGets == 2
\* largest steps_per_epoch of the single-worker training-loop specification
MaxSteps == 2
\* epochs of the training-loop specification
MaxEpochs == 2
\* largest max_ep_len of the training-loop specification
MaxEpLen == 2
\* train_v_iters of the training-loop specifications
VIters == 1
\* largest number of workers of the multi-worker specification, whose
\* steps_per_epoch is MaxProcs + 2
MaxProcs == 2
\* the longest argument of discount_cumsum called on its own
MaxLen == 3

(***************************************************************************)
(* Exact rational arithmetic.                                              *)
(***************************************************************************)
Abs(n) == IF n < 0 THEN -n ELSE n

RECURSIVE GCD(_, _)
GCD(a, b) == IF b = 0 THEN a ELSE GCD(b, a % b)

\* the rational n/d in lowest terms, d # 0
Rat(n, d) ==
  LET s == IF d < 0 THEN -1 ELSE 1
      g == GCD(Abs(n), Abs(d))
  IN  <<(s * n) \div g, (s * d) \div g>>

Zero == <<0, 1>>
One == <<1, 1>>
Int2Rat(n) == <<n, 1>>

LCM(a, b) == (a \div GCD(a, b)) * b

\* The operations are functions of the pairs, so that an operand is
\* evaluated once, before the operation is applied.
Pairs == Int \X Int
AddPairs[a \in Pairs, b \in Pairs] ==
  LET l == LCM(a[2], b[2])
  IN  Rat(a[1] * (l \div a[2]) + b[1] * (l \div b[2]), l)
MulPairs[a \in Pairs, b \in Pairs] == Rat(a[1] * b[1], a[2] * b[2])
NegPair[a \in Pairs] == <<-a[1], a[2]>>
DivPairs[a \in Pairs, b \in Pairs] == Rat(a[1] * b[2], a[2] * b[1])

RAdd(a, b) == AddPairs[a, b]
RNeg(a) == NegPair[a]
RSub(a, b) == AddPairs[a, NegPair[b]]
RMul(a, b) == MulPairs[a, b]
\* a / b for b # 0
RDiv(a, b) == DivPairs[a, b]

\* F(e), with e evaluated once and F applied to its value
Strict(F(_), e) == CHOOSE r \in {F(v) : v \in {e}} : TRUE
RLt(a, b) == a[1] * b[2] < b[1] * a[2]

NaN == <<0, 0>>
PosInf == <<1, 0>>
NegInf == <<-1, 0>>
Untracked == << >>
\* the real q / sqrt(v) for rationals q and v
Surd(q, v) == <<q[1], q[2], v[1], v[2]>>
IsRat(x) == Len(x) = 2 /\ x[2] > 0
IsSurd(x) == Len(x) = 4

RECURSIVE RPow(_, _)
RPow(a, k) == IF k = 0 THEN One ELSE RMul(a, RPow(a, k - 1))

\* n is the square of a natural number
IsSquare(n) == \E k \in 0..n : k * k = n
ISqrt(n) == CHOOSE k \in 0..n : k * k = n

\* the square root of the rational v >= 0: a rational when v is the square
\* of one, and v / sqrt(v) otherwise
SqrtPair[v \in Pairs] ==
  IF IsSquare(v[1]) /\ IsSquare(v[2]) THEN <<ISqrt(v[1]), ISqrt(v[2])>>
  ELSE Surd(v, v)
RSqrt(v) == SqrtPair[v]

\* x / y in IEEE arithmetic, for a rational x and a real y that is a
\* rational or sqrt(v)
FDivReals(x, y) ==
  IF IsRat(y)
    THEN IF y = Zero
           THEN IF x = Zero THEN NaN ELSE IF RLt(Zero, x) THEN PosInf ELSE NegInf
         ELSE RDiv(x, y)
  ELSE IF x = Zero THEN Zero ELSE Surd(x, <<y[3], y[4]>>)
FDiv(x, y) == Strict(LAMBDA v : FDivReals(v[1], v[2]), <<x, y>>)

\* the sum of the rationals of a sequence, accumulated left to right
RECURSIVE RSumTo(_, _)
RSumTo(s, n) == IF n = 0 THEN Zero ELSE RAdd(RSumTo(s, n - 1), s[n])
RSum(s) == Strict(LAMBDA v : RSumTo(v, Len(v)), s)

(***************************************************************************)
(* Arrays and slices.                                                      *)
(***************************************************************************)
\* np.zeros(size): the array of `size` zeros
zeros(size) == [i \in 0..(size - 1) |-> Zero]

\* a[lo:hi] as a sequence
Slice(a, lo, hi) == [k \in 1..(hi - lo) |-> a[lo + k - 1]]

\* a[lo:hi] = s, for a sequence s of length hi - lo
SetSlice(a, lo, hi, s) ==
  [i \in DOMAIN a |-> IF lo <= i /\ i < hi THEN s[i - lo + 1] ELSE a[i]]

\* x[::-1]
Reverse(x) == Strict(LAMBDA v : [k \in 1..Len(v) |-> v[Len(v) + 1 - k]], x)

\* the array as a sequence, a[0:size]
ArrSeq(a) ==
  Strict(LAMBDA v : [k \in 1..Cardinality(DOMAIN v) |-> v[k - 1]], a)

(***************************************************************************)
(* discount_cumsum (vpg.py 26-39).                                         *)
(***************************************************************************)
\* scipy.signal.lfilter(b, a, x) for b = [b0] and a = [1, a1]: the direct
\* form y[n] = b0*x[n] - a1*y[n-1], run forward over x with y[-1] = 0
RECURSIVE lfilterUpTo(_, _, _, _)
lfilterUpTo(b, a, x, n) ==
  IF n = 0 THEN <<>>
  ELSE Strict(LAMBDA y :
                Append(y, RSub(RMul(b[1], x[n]),
                               IF n = 1 THEN Zero ELSE RMul(a[2], y[n - 1]))),
              lfilterUpTo(b, a, x, n - 1))

lfilter(b, a, x) ==
  Strict(LAMBDA v : lfilterUpTo(v[1], v[2], v[3], Len(v[3])), <<b, a, x>>)

\* mutant: the filter is run over x without the two reversals
discount_cumsum_forward(x, discount) ==
  lfilter(<<One>>, <<One, RNeg(discount)>>, x)

\* mutant: the result of the filter is not reversed back
discount_cumsum_unreversed(x, discount) ==
  lfilter(<<One>>, <<One, RNeg(discount)>>, Reverse(x))

\* vpg.py 39: lfilter([1], [1, -discount], x[::-1])[::-1]
discount_cumsum(x, discount) ==
  Reverse(lfilter(<<One>>, <<One, RNeg(discount)>>, Reverse(x)))

(***************************************************************************)
(* Cross-worker statistics, utils.mpi_tools.mpi_statistics_scalar.  Its    *)
(* code is not part of the sources at hand; it is modelled from the        *)
(* specification: the mean and the standard deviation of the values of     *)
(* all workers.  xs is the sequence of the workers' local arrays.          *)
(***************************************************************************)
\* the arrays of the first n workers, one after the other
RECURSIVE ConcatTo(_, _)
ConcatTo(xs, n) == IF n = 0 THEN <<>> ELSE ConcatTo(xs, n - 1) \o xs[n]
Concat(xs) == Strict(LAMBDA v : ConcatTo(v, Len(v)), xs)

\* the deviation of the rationals all from their mean
std_of(all, mean) ==
  RSqrt(RDiv(RSum([k \in 1..Len(all) |->
                     RMul(RSub(all[k], mean), RSub(all[k], mean))]),
             Int2Rat(Len(all))))

\* the statistics of the values all of the workers together
statistics(all) ==
  IF Len(all) = 0 \/ \E k \in 1..Len(all) : all[k] = NaN
    THEN <<NaN, NaN>>
  ELSE IF \E k \in 1..Len(all) : ~IsRat(all[k])
    THEN <<Untracked, Untracked>>
  ELSE Strict(LAMBDA mean : <<mean, std_of(all, mean)>>,
              RDiv(RSum(all), Int2Rat(Len(all))))

mpi_statistics_scalar(xs) == Strict(LAMBDA all : statistics(all), Concat(xs))

(***************************************************************************)
(* class VPGBuffer (vpg.py 120-189).  A buffer is a record of the fields   *)
(* of the object.  Observations and actions are integer identifiers.       *)
(***************************************************************************)
\* vpg.py 127-136
VPGBuffer(size, gamma, lam) ==
  [obs_buf |-> [i \in 0..(size - 1) |-> 0],
   act_buf |-> [i \in 0..(size - 1) |-> 0],
   adv_buf |-> zeros(size),
   rew_buf |-> zeros(size),
   ret_buf |-> zeros(size),
   val_buf |-> zeros(size),
   logp_buf |-> zeros(size),
   gamma |-> gamma, lam |-> lam,
   ptr |-> 0, path_start_idx |-> 0, max_size |-> size]

\* mutant: the assertion of store lets one store too many through
store_assert_late(self) == self.ptr <= self.max_size

\* vpg.py 142: the assertion of store
store_assert(self) == self.ptr < self.max_size

\* vpg.py 143-148: store once its assertion has passed
store(self, obs, act, rew, val, logp) ==
  [self EXCEPT !.obs_buf[self.ptr] = obs,
               !.act_buf[self.ptr] = act,
               !.rew_buf[self.ptr] = rew,
               !.val_buf[self.ptr] = val,
               !.logp_buf[self.ptr] = logp,
               !.ptr = self.ptr + 1]

\* mutant: the residual takes the value of the same step, vals[:-1], where
\* the next one, vals[1:], is meant
td_deltas_same_step(rews, vals, gamma) ==
  Strict(LAMBDA v :
           [k \in 1..(Len(v[1]) - 1) |->
              RSub(RAdd(v[1][k], RMul(gamma, v[2][k])), v[2][k])],
         <<rews, vals>>)

\* vpg.py 170: deltas = rews[:-1] + gamma * vals[1:] - vals[:-1]
td_deltas(rews, vals, gamma) ==
  Strict(LAMBDA v :
           [k \in 1..(Len(v[1]) - 1) |->
              RSub(RAdd(v[1][k], RMul(gamma, v[2][k + 1])), v[2][k])],
         <<rews, vals>>)

\* mutant: the rewards-to-go are discounted by gamma * lam
finish_path_ret_lam(self, last_val) ==
  LET lo == self.path_start_idx
      hi == self.ptr
      rews == Append(Slice(self.rew_buf, lo, hi), last_val)
      vals == Append(Slice(self.val_buf, lo, hi), last_val)
      deltas == td_deltas(rews, vals, self.gamma)
      advs == discount_cumsum(deltas, RMul(self.gamma, self.lam))
      rets == discount_cumsum(rews, RMul(self.gamma, self.lam))
  IN  Strict(LAMBDA v :
        [self EXCEPT !.adv_buf = SetSlice(self.adv_buf, lo, hi, v[1]),
                     !.ret_buf = SetSlice(self.ret_buf, lo, hi,
                                          SubSeq(v[2], 1, Len(v[2]) - 1)),
                     !.path_start_idx = self.ptr],
        <<advs, rets>>)

\* mutant: the slice of the path starts at the head of the buffer
finish_path_from_head(self, last_val) ==
  LET lo == 0
      hi == self.ptr
      rews == Append(Slice(self.rew_buf, lo, hi), last_val)
      vals == Append(Slice(self.val_buf, lo, hi), last_val)
      deltas == td_deltas(rews, vals, self.gamma)
      advs == discount_cumsum(deltas, RMul(self.gamma, self.lam))
      rets == discount_cumsum(rews, self.gamma)
  IN  Strict(LAMBDA v :
        [self EXCEPT !.adv_buf = SetSlice(self.adv_buf, lo, hi, v[1]),
                     !.ret_buf = SetSlice(self.ret_buf, lo, hi,
                                          SubSeq(v[2], 1, Len(v[2]) - 1)),
                     !.path_start_idx = self.ptr],
        <<advs, rets>>)

\* vpg.py 165-176
finish_path(self, last_val) ==
  LET lo == self.path_start_idx
      hi == self.ptr
      rews == Append(Slice(self.rew_buf, lo, hi), last_val)
      vals == Append(Slice(self.val_buf, lo, hi), last_val)
      deltas == td_deltas(rews, vals, self.gamma)
      advs == discount_cumsum(deltas, RMul(self.gamma, self.lam))
      rets == discount_cumsum(rews, self.gamma)
  IN  Strict(LAMBDA v :
        [self EXCEPT !.adv_buf = SetSlice(self.adv_buf, lo, hi, v[1]),
                     !.ret_buf = SetSlice(self.ret_buf, lo, hi,
                                          SubSeq(v[2], 1, Len(v[2]) - 1)),
                     !.path_start_idx = self.ptr],
        <<advs, rets>>)

\* mutant: the assertion of get accepts a buffer that is not full
get_assert_early(self) == self.ptr <= self.max_size

\* vpg.py 184: the assertion of get
get_assert(self) == self.ptr = self.max_size

\* mutant: the advantages are scaled but not centred
normalize_uncentred(x, adv_mean, adv_std) ==
  IF x = NaN \/ adv_mean = NaN \/ adv_std = NaN THEN NaN
  ELSE IF ~IsRat(x) \/ ~IsRat(adv_mean) \/ adv_std = Untracked THEN Untracked
  ELSE FDiv(x, adv_std)

\* vpg.py 188: one element of (adv_buf - adv_mean) / adv_std, in IEEE
\* arithmetic: nothing guards a zero adv_std
normalize(x, adv_mean, adv_std) ==
  IF x = NaN \/ adv_mean = NaN \/ adv_std = NaN THEN NaN
  ELSE IF ~IsRat(x) \/ ~IsRat(adv_mean) \/ adv_std = Untracked THEN Untracked
  ELSE FDiv(RSub(x, adv_mean), adv_std)

\* mutant: get resets the write cursor only
get_reset_ptr_only(self) == [self EXCEPT !.ptr = 0]

\* vpg.py 185: the pointers are reset before the statistics are taken
get_reset(self) == [self EXCEPT !.ptr = 0, !.path_start_idx = 0]

\* vpg.py 188, given the result stats = <<adv_mean, adv_std>> of line 187
get_normalize(self, stats) ==
  Strict(LAMBDA v :
           [self EXCEPT !.adv_buf =
              [i \in DOMAIN self.adv_buf |->
                 normalize(self.adv_buf[i], v[1], v[2])]],
         stats)

\* vpg.py 185-188 on a single worker, once the assertion has passed
get(self) ==
  get_normalize(get_reset(self), mpi_statistics_scalar(<<ArrSeq(self.adv_buf)>>))

\* vpg.py 189: the five arrays get() returns
get_result(self) ==
  <<self.obs_buf, self.act_buf, self.adv_buf, self.ret_buf, self.logp_buf>>

(***************************************************************************)
(* State.                                                                  *)
(*   cfg    the arguments of the run: num_procs and the parameters of vpg  *)
(*   buf    buf[p] is the VPGBuffer of worker p                            *)
(*   loc    loc[p] holds the local variables of vpg in worker p            *)
(*   ac     ac[p] holds the parameters of the actor-critic of worker p     *)
(*   call   the last call made on a buffer and its outcome                 *)
(*   paths  paths[p]: the non-empty segments closed by finish_path in      *)
(*          buf[p] since the last get, as records [lo, hi, last_val]       *)
(*   coll   coll[p]: the collective operations worker p has entered        *)
(*   cnt    the successful store calls since the last successful get, and  *)
(*          the successful get calls                                       *)
(*   log    log[p]: what worker p and its environment did in the current   *)
(*          epoch of vpg: the calls of store and get, the calls of         *)
(*          env.step, and the episodes that ended                          *)
(***************************************************************************)
VARIABLES cfg, buf, loc, ac, call, paths, coll, cnt, log

vars == <<cfg, buf, loc, ac, call, paths, coll, cnt, log>>

Procs == 0..(cfg.num_procs - 1)

NoCall == [op |-> "none", ok |-> TRUE, p |-> 0, lo |-> 0, hi |-> 0,
           last_val |-> Zero, d |-> FALSE, o |-> 0]

\* the locals of vpg before the function is entered
Idle == [pc |-> "idle"]

\* the log of a worker at the start of an epoch
EmptyLog == [stores |-> 0, gets |-> 0, steps |-> <<>>, ep |-> <<>>,
             ended |-> <<>>]

(***************************************************************************)
(* Calls on one buffer made by an arbitrary client: store, finish_path and *)
(* get in any order, failing calls included.  A failed assertion raises    *)
(* and leaves the object as it was.                                        *)
(***************************************************************************)
ApiStore(obs, act, rew, val, logp) ==
  /\ IF store_assert(buf[0])
       THEN /\ buf' = [buf EXCEPT ![0] = store(buf[0], obs, act, rew, val, logp)]
            /\ cnt' = [cnt EXCEPT !.stores = cnt.stores + 1]
            /\ call' = [NoCall EXCEPT !.op = "store"]
       ELSE /\ call' = [NoCall EXCEPT !.op = "store", !.ok = FALSE]
            /\ UNCHANGED <<buf, cnt>>
  /\ UNCHANGED <<cfg, loc, ac, paths, coll, log>>

ApiFinishPath(last_val) ==
  /\ buf' = [buf EXCEPT ![0] = finish_path(buf[0], last_val)]
  /\ call' = [NoCall EXCEPT !.op = "finish_path", !.lo = buf[0].path_start_idx,
                            !.hi = buf[0].ptr, !.last_val = last_val]
  /\ paths' = IF buf[0].path_start_idx < buf[0].ptr
                THEN [paths EXCEPT ![0] = Append(paths[0],
                        [lo |-> buf[0].path_start_idx, hi |-> buf[0].ptr,
                         last_val |-> last_val])]
              ELSE paths
  /\ UNCHANGED <<cfg, loc, ac, coll, cnt, log>>

ApiGet ==
  /\ IF get_assert(buf[0])
       THEN /\ buf' = [buf EXCEPT ![0] = get(buf[0])]
            /\ cnt' = [stores |-> 0, gets |-> cnt.gets + 1]
            /\ paths' = [paths EXCEPT ![0] = <<>>]
            /\ call' = [NoCall EXCEPT !.op = "get"]
       ELSE /\ call' = [NoCall EXCEPT !.op = "get", !.ok = FALSE]
            /\ UNCHANGED <<buf, cnt, paths>>
  /\ UNCHANGED <<cfg, loc, ac, coll, log>>

\* one buffer of the given capacity, freshly constructed, and no training loop
ApiInit(size, gamma, lam) ==
  /\ cfg = [num_procs |-> 1, steps_per_epoch |-> size, epochs |-> 0,
            max_ep_len |-> 1, train_v_iters |-> 0, gamma |-> gamma, lam |-> lam]
  /\ buf = [p \in {0} |-> VPGBuffer(size, gamma, lam)]
  /\ loc = [p \in {0} |-> Idle]
  /\ ac = [p \in {0} |-> 0]
  /\ call = NoCall
  /\ paths = [p \in {0} |-> <<>>]
  /\ coll = [p \in {0} |-> <<>>]
  /\ cnt = [stores |-> 0, gets |-> 0]
  /\ log = [p \in {0} |-> EmptyLog]

(***************************************************************************)
(* SpecPath: the arithmetic of finish_path and get over one epoch.         *)
(* Capacities 1..MaxSize; rewards and values 0 or 1; bootstrap 0 or 5.     *)
(* The discounts 99/100 and 95/100 are explored for capacity 1 only: the   *)
(* integers of the checker are 32 bits wide.                               *)
(***************************************************************************)
Half == <<1, 2>>
PathRews == {Zero, One}
PathVals == {Zero, One}
PathLastVals == {Zero, <<5, 1>>}
PathGammaLams(size) ==
  {<<One, One>>, <<One, Half>>, <<Half, One>>}
    \cup (IF size = 1 THEN {<<(<<99, 100>>), (<<19, 20>>)>>} ELSE {})

InitPath ==
  \E size \in 1..MaxSize : \E gl \in PathGammaLams(size) :
    ApiInit(size, gl[1], gl[2])

NextPath ==
  /\ cnt.gets = 0
  /\ \/ \E rew \in PathRews, val \in PathVals :
          ApiStore(1, 1, rew, val, <<-1, 1>>)
     \/ \E last_val \in PathLastVals : ApiFinishPath(last_val)
     \/ ApiGet

SpecPath == InitPath /\ [][NextPath]_vars

(***************************************************************************)
(* SpecBuf: call sequences over several epochs on a small buffer.          *)
(***************************************************************************)
BufObs == {1, 2}
BufRews == {Zero, One}
BufLastVals == {Zero, One}

InitBuf == \E size \in 1..MaxCap : ApiInit(size, One, One)

NextBuf ==
  /\ cnt.gets < MaxGets
  /\ \/ \E obs \in BufObs, rew \in BufRews :
          ApiStore(obs, 1, rew, Zero, <<-1, 1>>)
     \/ \E last_val \in BufLastVals : ApiFinishPath(last_val)
     \/ ApiGet

SpecBuf == InitBuf /\ [][NextBuf]_vars

(***************************************************************************)
(* SpecScenario: the end-to-end scenario of the specification.  One        *)
(* worker, capacity 4, gamma = lam = 1, rewards 1, 0, 0, 1 stored in this  *)
(* order with any values, finish_path(0) after the second store,           *)
(* finish_path(5) after the fourth, then get().                            *)
(***************************************************************************)
ScenarioRews == <<One, Zero, Zero, One>>
ScenarioVals == {Zero, One, <<2, 1>>}

InitScenario == ApiInit(Len(ScenarioRews), One, One)

ScenarioStore(val) ==
  /\ buf[0].ptr < Len(ScenarioRews)
  /\ buf[0].ptr = 2 => buf[0].path_start_idx = 2
  /\ cnt.gets = 0
  /\ ApiStore(1, 1, ScenarioRews[buf[0].ptr + 1], val, <<-1, 1>>)

ScenarioFinishFirst ==
  /\ buf[0].ptr = 2 /\ buf[0].path_start_idx = 0
  /\ ApiFinishPath(Zero)

ScenarioFinishSecond ==
  /\ buf[0].ptr = 4 /\ buf[0].path_start_idx = 2
  /\ ApiFinishPath(<<5, 1>>)

ScenarioGet ==
  /\ buf[0].ptr = 4 /\ buf[0].path_start_idx = 4
  /\ ApiGet

NextScenario ==
  \/ \E val \in ScenarioVals : ScenarioStore(val)
  \/ ScenarioFinishFirst
  \/ ScenarioFinishSecond
  \/ ScenarioGet

SpecScenario == InitScenario /\ [][NextScenario]_vars

(***************************************************************************)
(* SpecCumsum: discount_cumsum called on its own.  call holds the          *)
(* arguments x and discount, and y once the function has returned.         *)
(***************************************************************************)
CumsumVals == {<<-1, 1>>, Zero, One, <<3, 2>>}
CumsumDiscounts == {One, Half, <<99, 100>>}

\* the sequences over S of the lengths 1..n
SeqsUpTo(S, n) == UNION {[1..k -> S] : k \in 1..n}

InitCumsum ==
  /\ cfg = [num_procs |-> 1, steps_per_epoch |-> 0, epochs |-> 0,
            max_ep_len |-> 1, train_v_iters |-> 0, gamma |-> One, lam |-> One]
  /\ buf = [p \in {0} |-> VPGBuffer(0, One, One)]
  /\ loc = [p \in {0} |-> Idle]
  /\ ac = [p \in {0} |-> 0]
  /\ \E x \in SeqsUpTo(CumsumVals, MaxLen), discount \in CumsumDiscounts :
       call = [op |-> "none", ok |-> TRUE, x |-> x, discount |-> discount,
               y |-> <<>>]
  /\ paths = [p \in {0} |-> <<>>]
  /\ coll = [p \in {0} |-> <<>>]
  /\ cnt = [stores |-> 0, gets |-> 0]
  /\ log = [p \in {0} |-> EmptyLog]

CallDiscountCumsum ==
  /\ call.op = "none"
  /\ call' = [call EXCEPT !.op = "discount_cumsum",
                          !.y = discount_cumsum(call.x, call.discount)]
  /\ UNCHANGED <<cfg, buf, loc, ac, paths, coll, cnt, log>>

NextCumsum == CallDiscountCumsum

SpecCumsum == InitCumsum /\ [][NextCumsum]_vars

(***************************************************************************)
(* The function vpg (vpg.py 198-293), run by every worker p.               *)
(*                                                                         *)
(* The environment and the networks are opaque: env.reset and env.step     *)
(* return any observation, reward and done flag of the sets below, the     *)
(* policy samples any action, the critic is a table v_mlp from             *)
(* observations to values, the policy a table pi_mlp giving the            *)
(* log-probability of each action, and a gradient step replaces a table by *)
(* any table of its set.                                                   *)
(*                                                                         *)
(* loc[p].pc is the position of worker p:                                  *)
(*   "init_sync_params", "init_sync_pi", "init_sync_v"                     *)
(*                  in sync_actor_critic of line 211: waiting in           *)
(*                  sync_params([log_std]) of line 49, in                  *)
(*                  sync_model(pi_mlp) of line 50, in sync_model(v_mlp)    *)
(*                  of line 51                                             *)
(*   "collect"      at the head of the loop of line 258                    *)
(*   "update"       after the loop, before update() of line 283            *)
(*   "get_stats"    in the collective of mpi_statistics_scalar, line 187   *)
(*   "pi_step"      in the collective of pi_optimizer, line 235 or 238     *)
(*   "vf_step"      in the collective of vf_optimizer, line 242            *)
(*   "sync_params", "sync_pi", "sync_v"                                    *)
(*                  the same three waits in sync_actor_critic of line 245  *)
(*   "ep_stats"     in the collective of mpi_statistics_scalar, line 284   *)
(*   "done"         after the last epoch                                   *)
(*   "error"        stopped by an AssertionError                           *)
(* The collectives are those of utils.mpi_tools and utils.mpi_tf, whose    *)
(* code is not part of the sources at hand; following the specification,   *)
(* each is a barrier that completes once every worker has entered it, and  *)
(* after sync_params or sync_model every worker holds the synchronised     *)
(* parameters of worker 0.  coll[p] lists the collectives worker p has     *)
(* entered, each as <<function called, argument>>.                         *)
(*                                                                         *)
(* cfg.action_space is the kind of env.action_space: the actor-critic of a *)
(* "Box" space has the attribute log_std, the one of a "Discrete" space    *)
(* has not (lines 73-83); ac[p] has the field log_std accordingly.         *)
(***************************************************************************)
Obs == {0, 1}
ResetObs == {0}
Acts == {0}
EnvRews == {Zero, One}
VParams == {[o \in Obs |-> Int2Rat(o)], [o \in Obs |-> Int2Rat(1 - o)]}
PiParams == {[o \in Obs |-> [a \in Acts |-> <<-1, 1>>]],
             [o \in Obs |-> [a \in Acts |-> <<-2, 1>>]]}
\* vpg.py 73, 79: env.action_space is a Box or a Discrete space
ActionSpaces == {"Box", "Discrete"}

\* vpg.py 77: the initial log_std, and the values a policy step leads to
InitLogStd == <<-1, 2>>
LogStds == {Zero}

\* vpg.py 72-84: the actor-critics ActorCritic(**ac_kwargs) may construct
ACParams(action_space) ==
  IF action_space = "Box"
    THEN [pi_mlp : PiParams, v_mlp : VParams, log_std : {InitLogStd}]
  ELSE [pi_mlp : PiParams, v_mlp : VParams]

\* vpg.py 48, 232: hasattr(actor_critic, 'log_std')
hasattr_log_std(actor_critic) == "log_std" \in DOMAIN actor_critic

\* the collectives, as listed in coll
CollSyncParams == <<"sync_params", "log_std">>
CollSyncPi == <<"sync_model", "pi_mlp">>
CollSyncV == <<"sync_model", "v_mlp">>
CollGetStats == <<"mpi_statistics_scalar", "adv_buf">>
CollPiStep == <<"apply_gradients", "pi">>
CollVfStep == <<"apply_gradients", "v">>
CollEpStats == <<"mpi_statistics_scalar", "all_ep_ret">>

\* vpg.py 47-50: the first wait of sync_actor_critic: sync_params when the
\* actor-critic has log_std, sync_model(pi_mlp) otherwise
sync_actor_critic(actor_critic) ==
  IF hasattr_log_std(actor_critic) THEN CollSyncParams ELSE CollSyncPi

\* the position of a worker waiting in the collective k of
\* sync_actor_critic, called at line 211 (site "init") or 245 ("update")
SyncPc(site, k) ==
  IF site = "init"
    THEN IF k = CollSyncParams THEN "init_sync_params"
         ELSE IF k = CollSyncPi THEN "init_sync_pi" ELSE "init_sync_v"
  ELSE IF k = CollSyncParams THEN "sync_params"
       ELSE IF k = CollSyncPi THEN "sync_pi" ELSE "sync_v"

\* vpg.py 216
local_steps_per_epoch == cfg.steps_per_epoch \div cfg.num_procs

\* vpg.py 201-211: the state of the workers on entering the first wait of
\* sync_actor_critic
VpgInit(c) ==
  /\ cfg = c
  /\ buf = [p \in 0..(c.num_procs - 1) |->
              VPGBuffer(c.steps_per_epoch \div c.num_procs, c.gamma, c.lam)]
  /\ ac \in [0..(c.num_procs - 1) -> ACParams(c.action_space)]
  /\ loc = [p \in 0..(c.num_procs - 1) |->
              [pc |-> SyncPc("init", sync_actor_critic(ac[p])),
               epoch |-> 0, t |-> 0, o |-> 0, r |-> Zero,
               d |-> FALSE, ep_ret |-> Zero, ep_len |-> 0, a |-> 0,
               v_t |-> Zero, logp_t |-> Zero, vf_iter |-> 0,
               all_ep_ret |-> <<>>, summary_ep_ret |-> <<>>,
               totalEnvInteracts |-> <<>>]]
  /\ call = NoCall
  /\ paths = [p \in 0..(c.num_procs - 1) |-> <<>>]
  /\ coll = [p \in 0..(c.num_procs - 1) |-> <<sync_actor_critic(ac[p])>>]
  /\ cnt = [stores |-> 0, gets |-> 0]
  /\ log = [p \in 0..(c.num_procs - 1) |-> EmptyLog]

\* worker p enters the collective k
Enter(l, p, k) == [l EXCEPT ![p].pc = k]
Entered(p, k) == [coll EXCEPT ![p] = Append(coll[p], k)]
AllIn(k) == \A p \in Procs : loc[p].pc = k

\* vpg.py 49: after sync_params([log_std]) every worker holds the log_std
\* of worker 0
sync_params(acs) ==
  [p \in Procs |-> [acs[p] EXCEPT !.log_std = acs[0].log_std]]

\* vpg.py 50-51: after sync_model(mlp) every worker holds the parameters
\* of the network mlp of worker 0
sync_model(acs, mlp) ==
  [p \in Procs |-> [acs[p] EXCEPT ![mlp] = acs[0][mlp]]]

\* all workers leave the collective they wait in and enter the collective
\* k at the position pc
AllEnter(pc, k) ==
  /\ loc' = [p \in Procs |-> [loc[p] EXCEPT !.pc = pc]]
  /\ coll' = [p \in Procs |-> Append(coll[p], k)]

\* vpg.py 274: the bootstrap value handed to finish_path
last_val(r, d, v_t) == IF d THEN r ELSE v_t

\* vpg.py 211, 48-50: sync_params([log_std]) of the initial
\* synchronisation completes; the workers enter sync_model(pi_mlp)
InitSyncParams ==
  /\ AllIn("init_sync_params")
  /\ ac' = sync_params(ac)
  /\ AllEnter("init_sync_pi", CollSyncPi)
  /\ UNCHANGED <<cfg, buf, call, paths, cnt, log>>

\* vpg.py 211, 50-51: sync_model(pi_mlp) of the initial synchronisation
\* completes; the workers enter sync_model(v_mlp)
InitSyncPi ==
  /\ AllIn("init_sync_pi")
  /\ ac' = sync_model(ac, "pi_mlp")
  /\ AllEnter("init_sync_v", CollSyncV)
  /\ UNCHANGED <<cfg, buf, call, paths, cnt, log>>

\* vpg.py 211, 51, 213-252: sync_model(v_mlp) of the initial
\* synchronisation completes; every worker resets its environment and
\* enters the loop
SyncInit(o0) ==
  /\ AllIn("init_sync_v")
  /\ ac' = sync_model(ac, "v_mlp")
  /\ loc' = [p \in Procs |->
               [loc[p] EXCEPT !.o = o0[p], !.r = Zero, !.d = FALSE,
                              !.ep_ret = Zero, !.ep_len = 0,
                              !.pc = IF cfg.epochs = 0 THEN "done"
                                     ELSE IF local_steps_per_epoch = 0
                                       THEN "update" ELSE "collect"]]
  /\ UNCHANGED <<cfg, buf, call, paths, coll, cnt, log>>

\* mutant: the step limit of an episode is not looked at
terminal_done_only(d, ep_len) == d

\* mutant: the step limit is taken one step late
terminal_limit_late(d, ep_len) == d \/ ep_len = cfg.max_ep_len + 1

\* vpg.py 269: terminal = d or (ep_len == max_ep_len)
terminal(d, ep_len) == d \/ ep_len = cfg.max_ep_len

\* mutant: the path is not closed at the end of the epoch
path_closes_terminal_only(term, t) == term

\* vpg.py 270: the condition under which the path is closed
path_closes(term, t) == term \/ t = local_steps_per_epoch - 1

\* mutant: the inner loop runs one iteration too many
range_exhausted_late(t) == t = local_steps_per_epoch

\* vpg.py 258: `for t in range(local_steps_per_epoch)` ends after iteration t
range_exhausted(t) == t + 1 = local_steps_per_epoch

\* mutant: the return of every closed path is reported
ep_ret_appended_always(term) == TRUE

\* vpg.py 277: the episode return is appended to all_ep_ret `if terminal`
ep_ret_appended(term) == term

\* vpg.py 263: buf.store(o, a, r, v_t, logp_t) stands before env.step and
\* stores the r the loop holds at that point: the reward of the step before,
\* or the 0 of lines 252 and 280; r2, the reward env.step of line 265 is
\* about to return for a, is not known there
stored_reward(r, r2) == r

\* vpg.py 259-280: one iteration of the inner loop in worker p.  The policy
\* samples a; env.step returns o2, r2, d2; env.reset returns o0.
Step(p, a, o2, r2, d2, o0) ==
  /\ loc[p].pc = "collect"
  /\ LET l == loc[p]
         v_t == ac[p].v_mlp[l.o]
         logp_t == ac[p].pi_mlp[l.o][a]
     IN
     IF ~store_assert(buf[p])
       THEN /\ loc' = [loc EXCEPT ![p].pc = "error"]
            /\ call' = [NoCall EXCEPT !.op = "store", !.ok = FALSE, !.p = p]
            /\ UNCHANGED <<buf, paths, log>>
     ELSE
       LET b1 == store(buf[p], l.o, a, stored_reward(l.r, r2), v_t, logp_t)
           ep_ret == RAdd(l.ep_ret, r2)
           ep_len == l.ep_len + 1
           term == terminal(d2, ep_len)
           closing == path_closes(term, l.t)
           lv == last_val(r2, d2, v_t)
           next_pc == IF range_exhausted(l.t) THEN "update" ELSE "collect"
           stepped == [log[p] EXCEPT
                         !.stores = log[p].stores + 1,
                         !.steps = Append(log[p].steps,
                                     [slot |-> buf[p].ptr, o |-> l.o, a |-> a,
                                      r |-> r2, d |-> d2]),
                         !.ep = Append(log[p].ep, r2)]
       IN
       IF closing
         THEN /\ buf' = [buf EXCEPT ![p] = finish_path(b1, lv)]
              /\ loc' = [loc EXCEPT ![p] =
                   [l EXCEPT !.a = a, !.v_t = v_t, !.logp_t = logp_t,
                             !.all_ep_ret = IF ep_ret_appended(term)
                                              THEN Append(l.all_ep_ret, ep_ret)
                                            ELSE l.all_ep_ret,
                             !.o = o0, !.r = Zero, !.d = FALSE,
                             !.ep_ret = Zero, !.ep_len = 0,
                             !.t = l.t + 1, !.pc = next_pc]]
              /\ call' = [op |-> "finish_path", ok |-> TRUE, p |-> p,
                          lo |-> b1.path_start_idx, hi |-> b1.ptr,
                          last_val |-> lv, d |-> d2, o |-> o2]
              /\ paths' = [paths EXCEPT ![p] = Append(paths[p],
                             [lo |-> b1.path_start_idx, hi |-> b1.ptr,
                              last_val |-> lv])]
              /\ log' = [log EXCEPT ![p] =
                   [stepped EXCEPT
                      !.ep = <<>>,
                      !.ended = Append(log[p].ended,
                                  [rews |-> stepped.ep, d |-> d2,
                                   len |-> ep_len])]]
       ELSE /\ buf' = [buf EXCEPT ![p] = b1]
            /\ loc' = [loc EXCEPT ![p] =
                 [l EXCEPT !.a = a, !.v_t = v_t, !.logp_t = logp_t,
                           !.o = o2, !.r = r2, !.d = d2,
                           !.ep_ret = ep_ret, !.ep_len = ep_len,
                           !.t = l.t + 1, !.pc = next_pc]]
            /\ call' = [NoCall EXCEPT !.op = "store", !.p = p]
            /\ log' = [log EXCEPT ![p] = stepped]
            /\ UNCHANGED paths
  /\ UNCHANGED <<cfg, ac, coll, cnt>>

\* vpg.py 283, 224, 184-187: worker p leaves the loop, calls update(), whose
\* buf.get() checks its assertion, resets the pointers and enters the
\* statistics collective
UpdateGet(p) ==
  /\ loc[p].pc = "update"
  /\ IF get_assert(buf[p])
       THEN /\ buf' = [buf EXCEPT ![p] = get_reset(buf[p])]
            /\ loc' = Enter(loc, p, "get_stats")
            /\ coll' = Entered(p, CollGetStats)
            /\ call' = [NoCall EXCEPT !.op = "get", !.p = p]
            /\ paths' = [paths EXCEPT ![p] = <<>>]
            /\ log' = [log EXCEPT ![p].gets = log[p].gets + 1]
       ELSE /\ loc' = [loc EXCEPT ![p].pc = "error"]
            /\ call' = [NoCall EXCEPT !.op = "get", !.ok = FALSE, !.p = p]
            /\ UNCHANGED <<buf, coll, paths, log>>
  /\ UNCHANGED <<cfg, ac, cnt>>

\* vpg.py 187-238: the statistics collective of get() completes; every
\* worker normalises its advantages with the common mean and deviation,
\* get() returns, and the worker enters the policy step
GetStats ==
  /\ AllIn("get_stats")
  /\ \E stats \in {mpi_statistics_scalar(
                       [k \in 1..cfg.num_procs |-> ArrSeq(buf[k - 1].adv_buf)])} :
       buf' = [p \in Procs |-> get_normalize(buf[p], stats)]
  /\ loc' = [p \in Procs |-> [loc[p] EXCEPT !.pc = "pi_step"]]
  /\ coll' = [p \in Procs |-> Append(coll[p], CollPiStep)]
  /\ UNCHANGED <<cfg, ac, call, paths, cnt, log>>

\* vpg.py 232-242: the policy step completes with the parameters pi, and
\* log_std when the actor-critic has one, in every worker; the worker enters
\* the first value step, or sync_actor_critic when train_v_iters = 0
PiStep(pi, log_std) ==
  /\ AllIn("pi_step")
  /\ ac' = [p \in Procs |->
              IF hasattr_log_std(ac[p])
                THEN [ac[p] EXCEPT !.pi_mlp = pi, !.log_std = log_std]
              ELSE [ac[p] EXCEPT !.pi_mlp = pi]]
  /\ LET k == IF cfg.train_v_iters = 0 THEN sync_actor_critic(ac[0])
              ELSE CollVfStep
         pc == IF cfg.train_v_iters = 0 THEN SyncPc("update", k)
               ELSE "vf_step"
     IN  /\ loc' = [p \in Procs |-> [loc[p] EXCEPT !.pc = pc, !.vf_iter = 0]]
         /\ coll' = [p \in Procs |-> Append(coll[p], k)]
  /\ UNCHANGED <<cfg, buf, call, paths, cnt, log>>

\* vpg.py 241-245: one value step completes with the parameters v; the
\* worker enters the next one, or sync_actor_critic after the last
VfStep(v) ==
  /\ AllIn("vf_step")
  /\ ac' = [p \in Procs |-> [ac[p] EXCEPT !.v_mlp = v]]
  /\ LET last == loc[0].vf_iter + 1 = cfg.train_v_iters
         k == IF last THEN sync_actor_critic(ac[0]) ELSE CollVfStep
         pc == IF last THEN SyncPc("update", k) ELSE "vf_step"
     IN  /\ loc' = [p \in Procs |->
                      [loc[p] EXCEPT !.pc = pc, !.vf_iter = loc[p].vf_iter + 1]]
         /\ coll' = [p \in Procs |-> Append(coll[p], k)]
  /\ UNCHANGED <<cfg, buf, call, paths, cnt, log>>

\* vpg.py 245, 48-50: sync_params([log_std]) of the synchronisation of
\* update() completes; the workers enter sync_model(pi_mlp)
UpdateSyncParams ==
  /\ AllIn("sync_params")
  /\ ac' = sync_params(ac)
  /\ AllEnter("sync_pi", CollSyncPi)
  /\ UNCHANGED <<cfg, buf, call, paths, cnt, log>>

\* vpg.py 245, 50-51: sync_model(pi_mlp) of the synchronisation of update()
\* completes; the workers enter sync_model(v_mlp)
UpdateSyncPi ==
  /\ AllIn("sync_pi")
  /\ ac' = sync_model(ac, "pi_mlp")
  /\ AllEnter("sync_v", CollSyncV)
  /\ UNCHANGED <<cfg, buf, call, paths, cnt, log>>

\* vpg.py 285-289, 257: the end of an epoch in one worker, given the mean
\* of the episode returns: the epoch is recorded and the next one begins, or
\* the run ends
EpochEnd(l, mean) ==
  [l EXCEPT !.all_ep_ret = <<>>,
            !.summary_ep_ret = Append(l.summary_ep_ret, mean),
            !.totalEnvInteracts = Append(l.totalEnvInteracts,
                                         (l.epoch + 1) * cfg.steps_per_epoch),
            !.epoch = l.epoch + 1,
            !.t = 0,
            !.pc = IF l.epoch + 1 = cfg.epochs THEN "done"
                   ELSE IF local_steps_per_epoch = 0 THEN "update"
                   ELSE "collect"]

\* mutant: the statistics of the episode returns are taken under the
\* `if proc_id() == 0` of the report
ep_stats_called_by_root(p) == p = 0

\* vpg.py 284: the workers that call mpi_statistics_scalar(all_ep_ret); the
\* call stands before the `if proc_id() == 0` of line 286, every worker
\* makes it
ep_stats_called(p) == TRUE

\* vpg.py 245, 51, 284: sync_model(v_mlp) of the synchronisation of
\* update() completes, update() returns and the worker enters the
\* statistics of the episode returns
SyncUpdate ==
  /\ AllIn("sync_v")
  /\ ac' = sync_model(ac, "v_mlp")
  /\ loc' = [p \in Procs |->
               IF ep_stats_called(p) THEN [loc[p] EXCEPT !.pc = "ep_stats"]
               ELSE EpochEnd(loc[p], NaN)]
  /\ coll' = [p \in Procs |->
                IF ep_stats_called(p) THEN Append(coll[p], CollEpStats)
                ELSE coll[p]]
  /\ log' = [p \in Procs |->
               IF ep_stats_called(p) THEN log[p] ELSE EmptyLog]
  /\ UNCHANGED <<cfg, buf, call, paths, cnt>>

\* vpg.py 284-289: the statistics of the episode returns complete
EpStats ==
  /\ AllIn("ep_stats")
  /\ \E stats \in {mpi_statistics_scalar(
                       [k \in 1..cfg.num_procs |-> loc[k - 1].all_ep_ret])} :
       loc' = [p \in Procs |-> EpochEnd(loc[p], stats[1])]
  /\ log' = [p \in Procs |-> EmptyLog]
  /\ UNCHANGED <<cfg, buf, ac, call, paths, coll, cnt>>

(***************************************************************************)
(* SpecLoop: the training loop of one worker in an environment with a      *)
(* Discrete action space, for steps_per_epoch in 1..MaxSteps and           *)
(* max_ep_len in 1..MaxEpLen.  The critic and the policy start as any      *)
(* table of VParams and PiParams; their gradient steps lead to the tables  *)
(* of LoopVParams and LoopPiParams.                                        *)
(***************************************************************************)
LoopVParams == {[o \in Obs |-> Int2Rat(o)]}
LoopPiParams == {[o \in Obs |-> [a \in Acts |-> <<-1, 1>>]]}

InitLoop ==
  \E mel \in 1..MaxEpLen, steps \in 1..MaxSteps :
    VpgInit([num_procs |-> 1, action_space |-> "Discrete",
             steps_per_epoch |-> steps,
             epochs |-> MaxEpochs, max_ep_len |-> mel,
             train_v_iters |-> VIters, gamma |-> One, lam |-> Half])

NextLoop ==
  \/ InitSyncPi
  \/ \E o0 \in [Procs -> ResetObs] : SyncInit(o0)
  \/ \E a \in Acts, o2 \in Obs, r2 \in EnvRews, d2 \in BOOLEAN, o0 \in ResetObs :
       Step(0, a, o2, r2, d2, o0)
  \/ UpdateGet(0)
  \/ GetStats
  \/ \E pi \in LoopPiParams, log_std \in LogStds : PiStep(pi, log_std)
  \/ \E v \in LoopVParams : VfStep(v)
  \/ UpdateSyncPi
  \/ SyncUpdate
  \/ EpStats

SpecLoop == InitLoop /\ [][NextLoop]_vars

(***************************************************************************)
(* SpecMpi: num_procs workers run vpg side by side, for num_procs in        *)
(* 2..MaxProcs and steps_per_epoch = MaxProcs + 2, which not every         *)
(* num_procs divides: local_steps_per_epoch is the truncated quotient.     *)
(* Each worker takes its own steps in its own environment; a collective    *)
(* completes for all of them at once.  SpecMpiFair adds that the run does  *)
(* not halt while a worker can take a step or a collective can complete:   *)
(* the workers are running processes, and env.step and the gradient        *)
(* computations return.                                                    *)
(***************************************************************************)
InitMpi ==
  \E n \in 2..MaxProcs, space \in ActionSpaces :
    VpgInit([num_procs |-> n, action_space |-> space,
             steps_per_epoch |-> MaxProcs + 2,
             epochs |-> MaxEpochs, max_ep_len |-> MaxEpLen,
             train_v_iters |-> VIters, gamma |-> One, lam |-> Half])

\* the environments of SpecMpi return one observation and one reward
MpiRews == {One}

MpiStep(p) ==
  \E a \in Acts, o2 \in ResetObs, r2 \in MpiRews, d2 \in BOOLEAN, o0 \in ResetObs :
    Step(p, a, o2, r2, d2, o0)

MpiSyncInit == \E o0 \in [Procs -> ResetObs] : SyncInit(o0)
MpiPiStep ==
  \E pi \in LoopPiParams, log_std \in LogStds : PiStep(pi, log_std)
MpiVfStep == \E v \in LoopVParams : VfStep(v)

NextMpi ==
  \/ InitSyncParams
  \/ InitSyncPi
  \/ MpiSyncInit
  \/ \E p \in Procs : MpiStep(p)
  \/ \E p \in Procs : UpdateGet(p)
  \/ GetStats
  \/ MpiPiStep
  \/ MpiVfStep
  \/ UpdateSyncParams
  \/ UpdateSyncPi
  \/ SyncUpdate
  \/ EpStats

SpecMpi == InitMpi /\ [][NextMpi]_vars

SpecMpiFair == SpecMpi /\ WF_vars(NextMpi)

(***************************************************************************)
(* Properties of the buffer.                                               *)
(***************************************************************************)
\* an array given by its elements in order
Arr(s) == [i \in 0..(Len(s) - 1) |-> s[i + 1]]

\* C3: in every state reached by store, finish_path and get calls, failing
\* calls included, 0 <= path_start_idx <= ptr <= capacity.
C3_PointerOrder ==
  /\ 0 <= buf[0].path_start_idx
  /\ buf[0].path_start_idx <= buf[0].ptr
  /\ buf[0].ptr <= buf[0].max_size

\* a call was refused on a buffer that is full, with a closed path, in a
\* later epoch
C3_Witness ==
  /\ call.op = "store" /\ ~call.ok
  /\ cnt.gets >= 1
  /\ buf[0].ptr = buf[0].max_size
  /\ 0 < buf[0].path_start_idx

\* C4: counting the successful stores since construction or since the last
\* successful get: get succeeds exactly when C stores were made, and a store
\* fails exactly when C stores were made already.
C4_CapacityContract ==
  [][/\ call'.op = "get" => (call'.ok <=> cnt.stores = buf[0].max_size)
     /\ call'.op = "store" => (call'.ok <=> cnt.stores < buf[0].max_size)
     /\ (call'.op = "get" /\ ~call'.ok) => buf' = buf]_vars

\* the (C+1)-th store of the second epoch has just been refused
C4_Witness ==
  /\ call.op = "store" /\ ~call.ok
  /\ cnt.gets = 1
  /\ cnt.stores = buf[0].max_size

IsNonFinite(x) == x \in {NaN, PosInf, NegInf}

\* C5: a successful get() returns finite advantages also when the standard
\* deviation of the advantages is zero.
C5_GetFinite ==
  (call.op = "get" /\ call.ok) =>
     \A i \in DOMAIN buf[0].adv_buf : ~IsNonFinite(get_result(buf[0])[3][i])

\* the discounted sum rew[i] + g*rew[i+1] + ... + g^(hi-1-i)*rew[hi-1]
\* + g^(hi-i)*b, term by term
RECURSIVE PowerSum(_, _, _, _, _)
PowerSum(rew, i, k, hi, g) ==
  IF k = hi THEN Zero
  ELSE RAdd(RMul(RPow(g, k - i), rew[k]), PowerSum(rew, i, k + 1, hi, g))

ReturnToGo(self, i, hi, b) ==
  RAdd(PowerSum(self.rew_buf, i, i, hi, self.gamma),
       RMul(RPow(self.gamma, hi - i), b))

\* C6: after finish_path(b) on the segment [lo, hi), every return slot i of
\* the segment holds rew[i] + gamma*rew[i+1] + ... + gamma^(hi-1-i)*rew[hi-1]
\* + gamma^(hi-i)*b.
C6_ReturnsToGo ==
  call.op = "finish_path" =>
    \A i \in call.lo..(call.hi - 1) :
      buf[0].ret_buf[i] = ReturnToGo(buf[0], i, call.hi, call.last_val)

\* finish_path(0) on the rewards 1, 1, 1 with gamma = 1 gave 3, 2, 1
C6_Witness ==
  /\ call.op = "finish_path" /\ call.lo = 0 /\ call.hi = 3
  /\ call.last_val = Zero /\ buf[0].gamma = One
  /\ buf[0].rew_buf = Arr(<<One, One, One>>)
  /\ buf[0].ret_buf = Arr(<<(<<3, 1>>), (<<2, 1>>), One>>)

\* delta[i] = rew[i] + gamma*val[i+1] - val[i], with val[hi] = b
Delta(self, i, hi, b) ==
  RSub(RAdd(self.rew_buf[i],
            RMul(self.gamma, IF i + 1 < hi THEN self.val_buf[i + 1] ELSE b)),
       self.val_buf[i])

\* C7: after finish_path(b) on the segment [lo, hi), every advantage slot i
\* of the segment holds delta[i] + gamma*lam*adv[i+1], with adv[hi] = 0; for
\* a segment of one step the advantage is r + gamma*b - v and the return is
\* r + gamma*b.
C7_GaeRecurrence ==
  call.op = "finish_path" =>
    /\ \A i \in call.lo..(call.hi - 1) :
         buf[0].adv_buf[i] =
           RAdd(Delta(buf[0], i, call.hi, call.last_val),
                RMul(RMul(buf[0].gamma, buf[0].lam),
                     IF i + 1 < call.hi THEN buf[0].adv_buf[i + 1] ELSE Zero))
    /\ call.hi = call.lo + 1 =>
         /\ buf[0].adv_buf[call.lo] =
              RSub(RAdd(buf[0].rew_buf[call.lo],
                        RMul(buf[0].gamma, call.last_val)),
                   buf[0].val_buf[call.lo])
         /\ buf[0].ret_buf[call.lo] =
              RAdd(buf[0].rew_buf[call.lo], RMul(buf[0].gamma, call.last_val))

\* a segment of three steps was closed with bootstrap 5 and lam = 1/2
C7_Witness ==
  /\ call.op = "finish_path" /\ call.hi = call.lo + 3
  /\ call.last_val = <<5, 1>> /\ buf[0].lam = Half
  /\ buf[0].val_buf[call.lo + 1] = One

\* both paths of the scenario are closed, or get() has returned
ScenarioDone == Len(paths[0]) = 2 \/ cnt.gets = 1

\* C8 as stated: the scenario leaves the returns 1, 0, 6, 5.
C8_Original ==
  ScenarioDone =>
    get_result(buf[0])[4] = Arr(<<One, Zero, (<<6, 1>>), (<<5, 1>>)>>)

\* C8 amended: the scenario leaves the returns 1, 0, 6, 6 in the buffer, and
\* get() returns them.
C8_ScenarioReturns ==
  ScenarioDone =>
    get_result(buf[0])[4] = Arr(<<One, Zero, (<<6, 1>>), (<<6, 1>>)>>)

\* get() has returned after the two paths of the scenario
C8_Witness ==
  /\ call.op = "get" /\ call.ok /\ cnt.gets = 1
  /\ buf[0].rew_buf = Arr(ScenarioRews)
  /\ buf[0].ret_buf[3] = <<6, 1>>

\* C9: a successful get resets ptr and path_start_idx to 0; only a
\* successful get decreases ptr, a successful store adds one to it and
\* finish_path leaves it; and in every epoch get succeeds once C stores
\* were made.
C9_ResetAndReuse ==
  [][/\ (call'.op = "get" /\ call'.ok) =>
          (buf'[0].ptr = 0 /\ buf'[0].path_start_idx = 0)
     /\ buf'[0].ptr < buf[0].ptr => (call'.op = "get" /\ call'.ok)
     /\ (call'.op = "store" /\ call'.ok) => buf'[0].ptr = buf[0].ptr + 1
     /\ call'.op = "finish_path" => buf'[0].ptr = buf[0].ptr
     /\ (call'.op = "get" /\ cnt.stores = buf[0].max_size) => call'.ok]_vars

\* the get of the second epoch has succeeded, after a path was closed
C9_Witness ==
  /\ call.op = "get" /\ call.ok
  /\ cnt.gets = 2
  /\ buf[0].ptr = 0 /\ buf[0].path_start_idx = 0
  /\ \E i \in DOMAIN buf[0].ret_buf : buf[0].ret_buf[i] # Zero

\* C16: finish_path changes the advantage and return slots of
\* [path_start_idx, ptr) and sets path_start_idx to ptr; ptr, the
\* observations, actions, rewards, values and log-probabilities, and every
\* other advantage and return slot stay as they were.
C16_FinishPathFrame ==
  [][call'.op = "finish_path" =>
       LET lo == buf[0].path_start_idx
           hi == buf[0].ptr
       IN  /\ buf'[0].path_start_idx = hi
           /\ buf'[0] = [buf[0] EXCEPT !.adv_buf = buf'[0].adv_buf,
                                       !.ret_buf = buf'[0].ret_buf,
                                       !.path_start_idx = hi]
           /\ \A i \in DOMAIN buf[0].adv_buf :
                (i < lo \/ i >= hi) =>
                   /\ buf'[0].adv_buf[i] = buf[0].adv_buf[i]
                   /\ buf'[0].ret_buf[i] = buf[0].ret_buf[i]]_vars

\* a second path, of two steps, was closed behind a first path of one step
\* whose return and advantage are not 0
C16_Witness ==
  /\ call.op = "finish_path" /\ call.lo = 1 /\ call.hi = 3
  /\ call.last_val = Zero
  /\ buf[0].path_start_idx = 3 /\ buf[0].ptr = 3
  /\ buf[0].ret_buf[0] = <<5, 1>> /\ buf[0].adv_buf[0] = <<4, 1>>
  /\ buf[0].ret_buf[1] = <<2, 1>>

\* C11: for x of length N >= 1 and a discount g in (0, 1],
\* y = discount_cumsum(x, g) has length N, y[N-1] = x[N-1], and
\* y[i] = x[i] + g*y[i+1] for every i < N-1 (the sequences of the model
\* count from 1).
C11_CumsumRecurrence ==
  call.op = "discount_cumsum" =>
    LET N == Len(call.x)
    IN  /\ Len(call.y) = N
        /\ call.y[N] = call.x[N]
        /\ \A i \in 1..(N - 1) :
             call.y[i] = RAdd(call.x[i], RMul(call.discount, call.y[i + 1]))

\* discount_cumsum([1, 0, 3/2], 1/2) has returned [11/8, 3/4, 3/2]
C11_Witness ==
  /\ call.op = "discount_cumsum"
  /\ call.x = <<One, Zero, (<<3, 2>>)>>
  /\ call.discount = Half
  /\ call.y = <<(<<11, 8>>), (<<3, 4>>), (<<3, 2>>)>>

(***************************************************************************)
(* Properties of the training loop.                                        *)
(***************************************************************************)
\* C1: whenever the loop closes a path at a step where the environment
\* signalled done, finish_path is called with the bootstrap value 0, also
\* when that step is the last of the epoch.
C1_TerminalBootstrapZero ==
  (call.op = "finish_path" /\ call.d) => call.last_val = Zero

\* C2: whenever the loop closes a path without done, the bootstrap value is
\* the critic's value of the final observation of the segment, the one
\* returned by the last env.step.
C2_CutoffBootstrapFinalObs ==
  (call.op = "finish_path" /\ ~call.d) =>
     call.last_val = ac[call.p].v_mlp[call.o]

\* worker p calls store, calls get, ends an epoch in this step
StoreCalled(p) ==
  \/ log'[p].stores = log[p].stores + 1
  \/ (call'.op = "store" /\ call'.p = p /\ ~call'.ok)
GetCalled(p) ==
  \/ log'[p].gets = log[p].gets + 1
  \/ (call'.op = "get" /\ call'.p = p /\ ~call'.ok)
EpochEnds(p) == loc[p].pc = "ep_stats" /\ loc'[p].epoch = loc[p].epoch + 1

\* C13: in every epoch of the loop store is called local_steps_per_epoch
\* times and then get() once; store is never called on a full buffer and
\* get() never on one that is not full, so that no assertion fails.
C13_EpochStoresThenGet ==
  [][\A p \in Procs :
       /\ loc'[p].pc # "error"
       /\ StoreCalled(p) =>
            /\ buf[p].ptr < buf[p].max_size
            /\ log[p].stores < local_steps_per_epoch
            /\ log[p].gets = 0
       /\ GetCalled(p) =>
            /\ buf[p].ptr = buf[p].max_size
            /\ log[p].stores = local_steps_per_epoch
            /\ log[p].gets = 0
       /\ EpochEnds(p) =>
            /\ log[p].stores = local_steps_per_epoch
            /\ log[p].gets = 1]_vars

\* the get() of the second epoch was called after local_steps_per_epoch
\* stores, in an epoch where an episode ended by done and another by the
\* end of the epoch
C13_Witness ==
  /\ loc[0].epoch = 1 /\ loc[0].pc = "get_stats"
  /\ call.op = "get" /\ call.ok
  /\ log[0].stores = local_steps_per_epoch /\ log[0].gets = 1
  /\ Len(log[0].ended) = 2
  /\ log[0].ended[1].d /\ ~log[0].ended[2].d

\* worker p makes one iteration of the inner loop in this step; its
\* env.step is the last of the log
Stepped(p) == Len(log'[p].steps) = Len(log[p].steps) + 1
LastStep(p) == log'[p].steps[Len(log'[p].steps)]

\* finish_path is called by worker p in this step
FinishPathCalled(p) ==
  call'.op = "finish_path" /\ call'.p = p /\ paths'[p] # paths[p]

\* C14: finish_path is called after a step exactly when the environment
\* signalled done at that step, or the steps of the episode number
\* max_ep_len, or the step is the last of the epoch; after it the
\* environment is reset and the episode length and return are 0.
C14_FinishPathIff ==
  [][\A p \in Procs :
       /\ Stepped(p) =>
            /\ FinishPathCalled(p) <=>
                 \/ LastStep(p).d
                 \/ Len(log[p].ep) + 1 = cfg.max_ep_len
                 \/ Len(log[p].steps) = local_steps_per_epoch - 1
            /\ FinishPathCalled(p) =>
                 /\ loc'[p].o \in ResetObs
                 /\ loc'[p].ep_len = 0 /\ loc'[p].ep_ret = Zero
                 /\ log'[p].ep = <<>>
                 /\ Len(log'[p].ended) = Len(log[p].ended) + 1
            /\ ~FinishPathCalled(p) =>
                 /\ loc'[p].ep_len = Len(log'[p].ep)
                 /\ buf'[p].path_start_idx = buf[p].path_start_idx
       /\ ~Stepped(p) => paths'[p] = paths[p] \/ paths'[p] = <<>>]_vars

\* a path was closed only because the episode reached max_ep_len: the
\* environment had not signalled done and the epoch goes on; env.step had
\* returned the observation 1 and the loop holds the one of env.reset
C14_Witness ==
  /\ call.op = "finish_path" /\ ~call.d /\ call.o = 1
  /\ loc[0].pc = "collect" /\ loc[0].t < local_steps_per_epoch
  /\ loc[0].o \in ResetObs /\ loc[0].ep_len = 0 /\ loc[0].ep_ret = Zero
  /\ log[0].ended # <<>>
  /\ log[0].ended[Len(log[0].ended)].rews = <<One>>

\* C15: every finish_path of the loop closes a segment that is not empty
\* (path_start_idx < ptr) and no longer than max_ep_len and than
\* local_steps_per_epoch; its steps are those of the episode that ends.
C15_SegmentsNonEmpty ==
  [][\A p \in Procs :
       FinishPathCalled(p) =>
         LET lo == buf[p].path_start_idx
             hi == buf'[p].ptr
         IN  /\ lo < hi
             /\ call'.lo = lo /\ call'.hi = hi
             /\ hi - lo <= cfg.max_ep_len
             /\ hi - lo <= local_steps_per_epoch
             /\ hi - lo = Len(log[p].ep) + 1]_vars

\* in the second epoch a path of two steps was closed at the step limit
\* max_ep_len = 2, without done
C15_Witness ==
  /\ call.op = "finish_path" /\ ~call.d
  /\ call.lo = 0 /\ call.hi = 2
  /\ cfg.max_ep_len = 2
  /\ loc[0].epoch = 1
  /\ buf[0].path_start_idx = 2

\* the returns of the first n episodes of ended that ended by done or at
\* the step limit, each the sum of the rewards env.step returned in it
RECURSIVE CompletedReturns(_, _)
CompletedReturns(ended, n) ==
  IF n = 0 THEN <<>>
  ELSE IF ended[n].d \/ Len(ended[n].rews) = cfg.max_ep_len
    THEN Append(CompletedReturns(ended, n - 1), RSum(ended[n].rews))
  ELSE CompletedReturns(ended, n - 1)

\* C17: all_ep_ret, and so the list handed to the report of the epoch,
\* holds one entry for each episode of the worker that ended in the epoch by
\* done or at max_ep_len, the sum of the rewards of its steps, and none for
\* an episode cut off by the end of the epoch only; it is empty when an
\* epoch starts.
C17_EpisodeReturnsReported ==
  \A p \in Procs :
    /\ loc[p].pc \in {"collect", "update", "get_stats", "pi_step", "vf_step",
                       "sync_params", "sync_pi", "sync_v", "ep_stats"} =>
         loc[p].all_ep_ret =
           CompletedReturns(log[p].ended, Len(log[p].ended))
    /\ (loc[p].pc = "collect" /\ loc[p].t = 0) =>
         (loc[p].all_ep_ret = <<>> /\ log[p].ended = <<>>)

\* the report of the second epoch is handed the return 1 of an episode that
\* ended by done, and nothing for the episode cut off by the epoch's end
C17_Witness ==
  /\ loc[0].pc = "ep_stats" /\ loc[0].epoch = 1
  /\ Len(log[0].ended) = 2
  /\ log[0].ended[1].d /\ log[0].ended[1].rews = <<One>>
  /\ ~log[0].ended[2].d /\ log[0].ended[2].rews = <<One>>
  /\ cfg.max_ep_len = 2
  /\ loc[0].all_ep_ret = <<One>>

\* the segments segs, in the order they were closed, cover the slots
\* 0..size-1 one after the other, none of them empty
Tiles(segs, size) ==
  /\ segs # <<>>
  /\ segs[1].lo = 0
  /\ segs[Len(segs)].hi = size
  /\ \A k \in 1..Len(segs) : segs[k].lo < segs[k].hi
  /\ \A k \in 1..(Len(segs) - 1) : segs[k].hi = segs[k + 1].lo

\* C18: whenever the loop calls get(), path_start_idx = ptr = capacity, and
\* the paths closed by finish_path in the current epoch cover the whole
\* buffer: every return slot holds the reward-to-go of its path and every
\* advantage slot the advantage computed for it in this epoch, none a
\* value normalised by the get() of an earlier epoch.
C18_GetOnClosedFullBuffer ==
  [][\A p \in Procs :
       GetCalled(p) =>
         /\ buf[p].path_start_idx = buf[p].ptr
         /\ buf[p].ptr = buf[p].max_size
         /\ buf[p].max_size = local_steps_per_epoch
         /\ Tiles(paths[p], buf[p].max_size)
         /\ \A k \in 1..Len(paths[p]) :
              \A i \in paths[p][k].lo..(paths[p][k].hi - 1) :
                /\ buf[p].ret_buf[i] =
                     ReturnToGo(buf[p], i, paths[p][k].hi, paths[p][k].last_val)
                /\ buf[p].adv_buf[i] =
                     RAdd(Delta(buf[p], i, paths[p][k].hi, paths[p][k].last_val),
                          RMul(RMul(buf[p].gamma, buf[p].lam),
                               IF i + 1 < paths[p][k].hi
                                 THEN buf[p].adv_buf[i + 1] ELSE Zero))]_vars

\* the get() of the second epoch was called on a buffer of two paths, after
\* the get() of the first epoch had left normalised advantages in it
C18_Witness ==
  /\ call.op = "get" /\ call.ok /\ loc[0].pc = "get_stats"
  /\ loc[0].epoch = 1
  /\ Len(log[0].ended) = 2
  /\ buf[0].ptr = 0 /\ buf[0].path_start_idx = 0
  /\ buf[0].ret_buf[0] # buf[0].ret_buf[1]
  /\ buf[0].adv_buf[0] # buf[0].adv_buf[1]

\* C19: every transition the loop stores holds, next to its observation
\* and action, the reward env.step returned for that action; so every
\* reward env.step returned in the epoch stands in the slot of its step.
C19_StoredRewardOfOwnStep ==
  \A p \in Procs :
    \A k \in 1..Len(log[p].steps) :
      LET step == log[p].steps[k]
      IN  /\ step.slot = k - 1
          /\ buf[p].obs_buf[step.slot] = step.o
          /\ buf[p].act_buf[step.slot] = step.a
          /\ buf[p].rew_buf[step.slot] = step.r

(***************************************************************************)
(* Properties of the workers.                                              *)
(***************************************************************************)
\* the advantages of all workers, worker after worker
AllAdv(b) ==
  Concat([k \in 1..cfg.num_procs |-> ArrSeq(b[k - 1].adv_buf)])

\* the mean and the variance of the rationals xs
MeanOf(xs) == RDiv(RSum(xs), Int2Rat(Len(xs)))
VarOf(xs) ==
  RDiv(RSum([k \in 1..Len(xs) |->
               RMul(RSub(xs[k], MeanOf(xs)), RSub(xs[k], MeanOf(xs)))]),
       Int2Rat(Len(xs)))

\* the square and the sign of the real y, a rational or q / sqrt(v)
SquareOf(y) ==
  IF IsSurd(y)
    THEN RDiv(RMul(<<y[1], y[2]>>, <<y[1], y[2]>>), <<y[3], y[4]>>)
  ELSE RMul(y, y)
SignOf(y) == IF y[1] > 0 THEN 1 ELSE IF y[1] < 0 THEN -1 ELSE 0

\* the reals ys add up to 0: rationals do, and multiples q / sqrt(v) of one
\* irrational 1 / sqrt(v) do when the q add up to 0
SumIsZero(ys) ==
  /\ \A j, k \in 1..Len(ys) :
       (IsSurd(ys[j]) /\ IsSurd(ys[k])) =>
          (ys[j][3] = ys[k][3] /\ ys[j][4] = ys[k][4])
  /\ \A j, k \in 1..Len(ys) : (IsSurd(ys[j]) /\ IsRat(ys[k])) => ys[k] = Zero
  /\ RSum([k \in 1..Len(ys) |-> <<ys[k][1], ys[k][2]>>]) = Zero

\* the statistics collective of get() completes in this step
GetReturns == AllIn("get_stats") /\ \A p \in Procs : loc'[p].pc = "pi_step"

\* C12: when get() returns and the advantages of all workers together have
\* a non-zero variance, every worker holds (value - mean) / std for each of
\* its advantages, with the mean and std of the advantages of all workers,
\* and the advantages of all workers together have mean 0 and std 1.
C12_NormalizedAcrossWorkers ==
  [][(GetReturns /\ VarOf(AllAdv(buf)) # Zero) =>
       LET xs == AllAdv(buf)
           ys == AllAdv(buf')
       IN  /\ \A k \in 1..Len(xs) :
                /\ IsRat(ys[k]) \/ IsSurd(ys[k])
                /\ RMul(SquareOf(ys[k]), VarOf(xs)) =
                     RMul(RSub(xs[k], MeanOf(xs)), RSub(xs[k], MeanOf(xs)))
                /\ SignOf(ys[k]) = SignOf(RSub(xs[k], MeanOf(xs)))
           /\ SumIsZero(ys)
           /\ RDiv(RSum([k \in 1..Len(ys) |-> SquareOf(ys[k])]),
                   Int2Rat(Len(ys))) = One]_vars

\* get() has returned in two workers whose advantages differed; the common
\* deviation was irrational
C12_Witness ==
  /\ AllIn("pi_step")
  /\ cfg.num_procs = 2
  /\ buf[0].adv_buf # buf[1].adv_buf
  /\ \E i \in DOMAIN buf[0].adv_buf : IsSurd(buf[0].adv_buf[i])
  /\ \E i \in DOMAIN buf[1].adv_buf : IsRat(buf[1].adv_buf[i])

IsPrefix(s, t) == Len(s) <= Len(t) /\ SubSeq(t, 1, Len(s)) = s

AllDone == \A p \in Procs : loc[p].pc = "done"

\* the collectives of a whole run: the initial synchronisation, and for each
\* epoch the statistics of get(), the policy step, the value steps, the
\* parameter synchronisation and the statistics of the episode returns
RECURSIVE Repeat(_, _)
Repeat(s, n) == IF n = 0 THEN <<>> ELSE s \o Repeat(s, n - 1)

SyncCollectives ==
  (IF cfg.action_space = "Box" THEN <<CollSyncParams>> ELSE <<>>) \o
  <<CollSyncPi, CollSyncV>>

RunCollectives ==
  SyncCollectives \o
  Repeat(<<CollGetStats, CollPiStep>> \o
         [k \in 1..cfg.train_v_iters |-> CollVfStep] \o
         SyncCollectives \o <<CollEpStats>>, cfg.epochs)

CollectivesAgree ==
  /\ \A p, q \in Procs : IsPrefix(coll[p], coll[q]) \/ IsPrefix(coll[q], coll[p])
  /\ \A p \in Procs : IsPrefix(coll[p], RunCollectives)
  /\ AllDone => \A p \in Procs : coll[p] = RunCollectives

\* C10: the workers enter the same collectives in the same order and the
\* same number of times, however the episodes of each end, and every worker
\* completes all epochs.
C10_CollectivesMatch == []CollectivesAgree /\ <>AllDone

\* all workers are done, and the episodes of two of them ended differently
\* in the last epoch
C10_Witness ==
  /\ AllDone
  /\ loc[0].epoch = cfg.epochs
  /\ buf[0].rew_buf # buf[1].rew_buf
  /\ buf[0].ret_buf # buf[1].ret_buf

====
